---- MODULE Spec2Model ----
(***************************************************************************)
(* Model of the WhatsApp order notification action.                        *)
(*                                                                         *)
(* JavaScript values are tagged records [t |-> <type>, v |-> <payload>].   *)
(* A JavaScript string is a sequence of tokens: telephone numbers are      *)
(* written one character per token, event types and message templates one  *)
(* literal fragment per token, so that includes / startsWith / length /    *)
(* replace / concatenation are computed on the sequence as the code        *)
(* computes them on the characters.                                        *)
(***************************************************************************)
EXTENDS Integers, Sequences, FiniteSets, TLC

(***************************************************************************)
(* JavaScript values                                                       *)
(***************************************************************************)
Undef == [t |-> "undefined", v |-> <<>>]
Null == [t |-> "null", v |-> <<>>]
Str(s) == [t |-> "string", v |-> s]
Num(n) == [t |-> "number", v |-> n]
Bool(b) == [t |-> "boolean", v |-> b]
Obj(f) == [t |-> "object", v |-> f]
Arr(s) == [t |-> "array", v |-> s]
\* a thrown Error carrying a message
Throw(m) == [t |-> "throw", v |-> m]

EmptyObj == Obj(<<>>)
EmptyStr == Str(<<>>)

IsNullish(x) == x.t \in {"undefined", "null"}
IsThrow(x) == x.t = "throw"

\* ToBoolean
Truthy(x) ==
  CASE x.t = "undefined" -> FALSE
    [] x.t = "null" -> FALSE
    [] x.t = "string" -> x.v # <<>>
    [] x.t = "number" -> x.v # 0
    [] x.t = "boolean" -> x.v
    [] OTHER -> TRUE

\* a || b
Or(a, b) == IF Truthy(a) THEN a ELSE b

\* o.k for an o that is not null or undefined
Get(o, k) == IF o.t = "object" /\ k \in DOMAIN o.v THEN o.v[k] ELSE Undef

\* o?.k
OptGet(o, k) == IF IsNullish(o) THEN Undef ELSE Get(o, k)

\* arr.length, arr[i] (0-based index i)
ArrLength(a) == IF a.t \in {"array", "string"} THEN Num(Len(a.v)) ELSE Undef
ArrAt(a, i) == IF a.t = "array" /\ i + 1 \in DOMAIN a.v THEN a.v[i + 1] ELSE Undef

\* `${x}` inside a template literal
ToStr(x) ==
  CASE x.t = "string" -> x.v
    [] x.t = "number" -> <<ToString(x.v)>>
    [] x.t = "boolean" -> IF x.v THEN <<"true">> ELSE <<"false">>
    [] x.t = "undefined" -> <<"undefined">>
    [] x.t = "null" -> <<"null">>
    [] OTHER -> <<"[object Object]">>

(***************************************************************************)
(* String.prototype methods on token sequences                             *)
(***************************************************************************)
StartsWith(s, p) == Len(p) <= Len(s) /\ SubSeq(s, 1, Len(p)) = p

Includes(s, p) ==
  \E i \in 0..(Len(s) - Len(p)) : SubSeq(s, i + 1, i + Len(p)) = p

Substring(s, from) == SubSeq(s, from + 1, Len(s))

Whitespace == {" "}

RECURSIVE TrimStart(_)
TrimStart(s) ==
  IF s # <<>> /\ Head(s) \in Whitespace THEN TrimStart(Tail(s)) ELSE s

RECURSIVE TrimEnd(_)
TrimEnd(s) ==
  IF s # <<>> /\ s[Len(s)] \in Whitespace
    THEN TrimEnd(SubSeq(s, 1, Len(s) - 1)) ELSE s

Trim(s) == TrimEnd(TrimStart(s))

\* Array.prototype.join
RECURSIVE Join(_, _)
Join(strs, sep) ==
  IF strs = <<>> THEN <<>>
  ELSE IF Len(strs) = 1 THEN strs[1]
  ELSE strs[1] \o sep \o Join(Tail(strs), sep)

(***************************************************************************)
(* utils.errorResponse                                                     *)
(***************************************************************************)
errorResponse(statusCode, message) ==
  Obj([error |-> Obj([statusCode |-> Num(statusCode),
                      body |-> Obj([error |-> Str(message)])])])

LogEntry(level, msg) == [level |-> level, msg |-> msg]

(***************************************************************************)
(* eventValidator.js                                                       *)
(***************************************************************************)
COMMERCE_NS == <<"com.adobe.commerce">>

PLACE_AFTER == COMMERCE_NS \o <<".observer.", "sales_order_", "place_after">>
SAVE_AFTER == COMMERCE_NS \o <<".observer.", "sales_order_", "save_after">>
SHIPMENT_SAVE_AFTER ==
  COMMERCE_NS \o <<".observer.", "sales_order_", "shipment_", "save_after">>
CANCEL_AFTER == COMMERCE_NS \o <<".observer.", "sales_order_", "cancel_after">>

ALLOWED_EVENT_TYPES ==
  <<PLACE_AFTER, SAVE_AFTER, SHIPMENT_SAVE_AFTER, CANCEL_AFTER>>

\* the allow-list matched by substring instead of equality
AllowedIncludes_Substring(eventType) ==
  eventType.t = "string" /\
  \E i \in DOMAIN ALLOWED_EVENT_TYPES : Includes(eventType.v, ALLOWED_EVENT_TYPES[i])

\* ALLOWED_EVENT_TYPES.includes(eventType): SameValueZero against strings
AllowedIncludes(eventType) ==
  eventType.t = "string" /\
  \E i \in DOMAIN ALLOWED_EVENT_TYPES : ALLOWED_EVENT_TYPES[i] = eventType.v

\* x.includes(needle) for a value x: a TypeError unless x is a string
ValueIncludes(x, needle) ==
  IF x.t = "string" THEN Bool(Includes(x.v, needle))
  ELSE Throw(<<"includes is not a function">>)

\* validateCloudEventStructure testing `type` alone
validateCloudEventStructure_TypeOnly(params) ==
  IF ~Truthy(Get(params, "type"))
    THEN [ret |-> errorResponse(400, <<"Invalid event structure">>),
          log |-> <<LogEntry("error", <<"Invalid event structure - missing required CloudEvents fields (type, source)">>)>>]
    ELSE [ret |-> Null, log |-> <<>>]

\* Each validator yields [ret |-> null | error response | thrown error,
\*                        log |-> the logger calls it made]
validateCloudEventStructure(params) ==
  IF ~Truthy(Get(params, "type")) \/ ~Truthy(Get(params, "source"))
    THEN [ret |-> errorResponse(400, <<"Invalid event structure">>),
          log |-> <<LogEntry("error", <<"Invalid event structure - missing required CloudEvents fields (type, source)">>)>>]
    ELSE [ret |-> Null, log |-> <<>>]

\* validateCommerceEvent rejecting a source that lacks the namespace
validateCommerceEvent_SourceRequired(params) ==
  LET type == Get(params, "type")
      source == Get(params, "source")
      typeIncl == IF Truthy(type) THEN ValueIncludes(type, COMMERCE_NS) ELSE type
      srcIncl == IF Truthy(source) THEN ValueIncludes(source, COMMERCE_NS) ELSE source
  IN IF IsThrow(typeIncl) THEN [ret |-> typeIncl, log |-> <<>>]
     ELSE IF ~Truthy(typeIncl)
       THEN [ret |-> errorResponse(400, <<"Invalid event source - not a Commerce event">>),
             log |-> <<LogEntry("error", <<"Invalid event source - not a Commerce event. Event type: ">> \o ToStr(type))>>]
     ELSE IF Truthy(source) /\ IsThrow(srcIncl) THEN [ret |-> srcIncl, log |-> <<>>]
     ELSE IF Truthy(source) /\ ~Truthy(srcIncl)
       THEN [ret |-> errorResponse(400, <<"Invalid event source - not a Commerce event">>),
             log |-> <<LogEntry("warn", <<"Unexpected event source: ">> \o ToStr(source) \o <<". Proceeding with caution.">>)>>]
     ELSE [ret |-> Null, log |-> <<>>]

validateCommerceEvent(params) ==
  LET type == Get(params, "type")
      source == Get(params, "source")
      typeIncl == IF Truthy(type) THEN ValueIncludes(type, COMMERCE_NS) ELSE type
      srcIncl == IF Truthy(source) THEN ValueIncludes(source, COMMERCE_NS) ELSE source
  IN IF IsThrow(typeIncl) THEN [ret |-> typeIncl, log |-> <<>>]
     ELSE IF ~Truthy(typeIncl)
       THEN [ret |-> errorResponse(400, <<"Invalid event source - not a Commerce event">>),
             log |-> <<LogEntry("error", <<"Invalid event source - not a Commerce event. Event type: ">> \o ToStr(type))>>]
     ELSE IF Truthy(source) /\ IsThrow(srcIncl) THEN [ret |-> srcIncl, log |-> <<>>]
     ELSE IF Truthy(source) /\ ~Truthy(srcIncl)
       THEN [ret |-> Null,
             log |-> <<LogEntry("warn", <<"Unexpected event source: ">> \o ToStr(source) \o <<". Proceeding with caution.">>)>>]
     ELSE [ret |-> Null, log |-> <<>>]

\* validateEventType admitting every type
validateEventType_AllowAll(eventType) ==
  [ret |-> Null, log |-> <<>>]

validateEventType(eventType) ==
  IF ~AllowedIncludes(eventType)
    THEN [ret |-> errorResponse(400, <<"Unauthorized event type: ">> \o ToStr(eventType)),
          log |-> <<LogEntry("error", <<"Unauthorized event type: ">> \o ToStr(eventType)
                     \o <<". Allowed types: ">> \o Join(ALLOWED_EVENT_TYPES, <<", ">>))>>]
    ELSE [ret |-> Null, log |-> <<>>]

\* validateEvent running the allow-list check before the namespace check
validateEvent_AllowListFirst(params) ==
  LET e1 == validateCloudEventStructure(params)
      e2 == validateCommerceEvent(params)
      e3 == validateEventType(Get(params, "type"))
  IN IF Truthy(e1.ret) THEN e1
     ELSE IF Truthy(e3.ret) THEN [ret |-> e3.ret, log |-> e1.log \o e3.log]
     ELSE IF Truthy(e2.ret) THEN [ret |-> e2.ret, log |-> e1.log \o e3.log \o e2.log]
     ELSE [ret |-> Null, log |-> e1.log \o e3.log \o e2.log]

validateEvent(params) ==
  LET e1 == validateCloudEventStructure(params)
      e2 == validateCommerceEvent(params)
      e3 == validateEventType(Get(params, "type"))
  IN IF Truthy(e1.ret) THEN e1
     ELSE IF Truthy(e2.ret) THEN [ret |-> e2.ret, log |-> e1.log \o e2.log]
     ELSE IF Truthy(e3.ret) THEN [ret |-> e3.ret, log |-> e1.log \o e2.log \o e3.log]
     ELSE [ret |-> Null, log |-> e1.log \o e2.log \o e3.log]

(***************************************************************************)
(* orderDataExtractor.js                                                   *)
(***************************************************************************)
\* a needle that the order-saved type contains as well
SHIPMENT_NEEDLE_SaveAfter == <<"save_after">>

SHIPMENT_NEEDLE == <<"sales_order_", "shipment_", "save_after">>

\* extractShipmentData defaulting to an empty object instead of null
extractShipmentData_EmptyDefault(data) ==
  Or(OptGet(OptGet(data, "value"), "shipment"), EmptyObj)

extractShipmentData(data) ==
  Or(OptGet(OptGet(data, "value"), "shipment"), Null)

\* extractOrderData preferring data.value.order to the order of the shipment
extractOrderData_ValueOrderFirst(data, shipmentData, isShipmentEvent) ==
  IF isShipmentEvent /\ Truthy(shipmentData)
    THEN Or(Or(Or(OptGet(OptGet(data, "value"), "order"),
                  Get(shipmentData, "order")),
               OptGet(data, "value")),
            Null)
    ELSE Or(Or(OptGet(OptGet(data, "value"), "order"),
               OptGet(data, "value")),
            Null)

extractOrderData(data, shipmentData, isShipmentEvent) ==
  IF isShipmentEvent /\ Truthy(shipmentData)
    THEN Or(Or(Or(Get(shipmentData, "order"),
                  OptGet(OptGet(data, "value"), "order")),
               OptGet(data, "value")),
            Null)
    ELSE Or(Or(OptGet(OptGet(data, "value"), "order"),
               OptGet(data, "value")),
            Null)

extractOrderInfo(orderData) ==
  [orderNumber |-> Or(Get(orderData, "increment_id"), Get(orderData, "entity_id")),
   customerEmail |-> Get(orderData, "customer_email"),
   customerName |->
     Str(Trim(ToStr(Or(Get(orderData, "customer_firstname"), EmptyStr))
              \o <<" ">>
              \o ToStr(Or(Get(orderData, "customer_lastname"), EmptyStr)))),
   orderTotal |-> Get(orderData, "grand_total"),
   orderCurrency |-> Get(orderData, "order_currency_code"),
   orderStatus |-> Or(Get(orderData, "status"), Get(orderData, "state"))]

extractTrackingNumber(shipmentData) ==
  IF ~Truthy(shipmentData) \/ ~Truthy(Get(shipmentData, "tracks"))
     \/ ArrLength(Get(shipmentData, "tracks")) = Num(0)
    THEN Null
    ELSE LET track == ArrAt(Get(shipmentData, "tracks"), 0)
         IN IF IsNullish(track) THEN Throw(<<"Cannot read properties of undefined">>)
            ELSE Or(Or(Get(track, "track_number"), Get(track, "number")), Null)

\* extractEventData reporting every missing payload as missing order data
extractEventData_OrderErrorOnly(params, eventType) ==
  LET isShipmentEvent == Includes(eventType.v, SHIPMENT_NEEDLE)
      shipmentData == IF isShipmentEvent
                        THEN extractShipmentData(Get(params, "data"))
                        ELSE Null
      orderData == extractOrderData(Get(params, "data"), shipmentData, isShipmentEvent)
  IN IF ~Truthy(orderData)
       THEN [error |-> errorResponse(400, <<"Missing order data">>),
             orderData |-> Undef, shipmentData |-> Undef,
             log |-> <<LogEntry("error", <<"No order data found in event">>)>>]
       ELSE [error |-> Undef, orderData |-> orderData,
             shipmentData |-> shipmentData, log |-> <<>>]

\* yields [error |-> error response or undefined, orderData, shipmentData, log]
extractEventData(params, eventType) ==
  LET isShipmentEvent == Includes(eventType.v, SHIPMENT_NEEDLE)
      shipmentData == IF isShipmentEvent
                        THEN extractShipmentData(Get(params, "data"))
                        ELSE Null
      orderData == extractOrderData(Get(params, "data"), shipmentData, isShipmentEvent)
  IN IF ~Truthy(orderData)
       THEN IF isShipmentEvent /\ ~Truthy(shipmentData)
              THEN [error |-> errorResponse(400, <<"Missing shipment data">>),
                    orderData |-> Undef, shipmentData |-> Undef,
                    log |-> <<LogEntry("error", <<"No shipment or order data found in shipment event">>)>>]
              ELSE [error |-> errorResponse(400, <<"Missing order data">>),
                    orderData |-> Undef, shipmentData |-> Undef,
                    log |-> <<LogEntry("error", <<"No order data found in event">>)>>]
       ELSE [error |-> Undef, orderData |-> orderData,
             shipmentData |-> shipmentData, log |-> <<>>]

(***************************************************************************)
(* phoneUtils.js                                                           *)
(***************************************************************************)
Digits == {"0", "1", "2", "3", "4", "5", "6", "7", "8", "9"}

KeptByRegex(c) == c \in Digits \cup {"+"}

\* phoneNumber.replace(/[^\d+]/g, '')
StripNonPhoneChars(s) == SelectSeq(s, KeptByRegex)

WHATSAPP_PREFIX == <<"w", "h", "a", "t", "s", "a", "p", "p", ":">>

\* formatPhoneNumber without the early return for a value that starts with '+'
formatPhoneNumber_NoPlusReturn(phoneNumber) ==
  IF ~Truthy(phoneNumber) THEN Null
  ELSE IF phoneNumber.t # "string" THEN Throw(<<"phoneNumber.replace is not a function">>)
  ELSE LET cleaned == StripNonPhoneChars(phoneNumber.v)
       IN IF StartsWith(cleaned, <<"0", "0">>) THEN Str(<<"+">> \o Substring(cleaned, 2))
          ELSE IF Len(cleaned) = 10 THEN Str(<<"+", "1">> \o cleaned)
          ELSE IF ~StartsWith(cleaned, <<"+">>) THEN Str(<<"+">> \o cleaned)
          ELSE Str(cleaned)

formatPhoneNumber(phoneNumber) ==
  IF ~Truthy(phoneNumber) THEN Null
  ELSE IF phoneNumber.t # "string" THEN Throw(<<"phoneNumber.replace is not a function">>)
  ELSE LET cleaned == StripNonPhoneChars(phoneNumber.v)
       IN IF StartsWith(cleaned, <<"+">>) THEN Str(cleaned)
          ELSE IF StartsWith(cleaned, <<"0", "0">>) THEN Str(<<"+">> \o Substring(cleaned, 2))
          ELSE IF Len(cleaned) = 10 THEN Str(<<"+", "1">> \o cleaned)
          ELSE IF ~StartsWith(cleaned, <<"+">>) THEN Str(<<"+">> \o cleaned)
          ELSE Str(cleaned)

\* the last address with a telephone instead of the first
FirstPhoneIndex_Last(addresses) ==
  IF \E i \in DOMAIN addresses : Truthy(Get(addresses[i], "telephone"))
    THEN CHOOSE i \in DOMAIN addresses :
           /\ Truthy(Get(addresses[i], "telephone"))
           /\ \A j \in (i + 1)..Len(addresses) : ~Truthy(Get(addresses[j], "telephone"))
    ELSE 0

\* index (1-based) of the first address whose telephone is truthy, 0 if none
FirstPhoneIndex(addresses) ==
  IF \E i \in DOMAIN addresses : Truthy(Get(addresses[i], "telephone"))
    THEN CHOOSE i \in DOMAIN addresses :
           /\ Truthy(Get(addresses[i], "telephone"))
           /\ \A j \in 1..(i - 1) : ~Truthy(Get(addresses[j], "telephone"))
    ELSE 0

\* index (1-based) of the first null/undefined address entry, 0 if none
FirstNullishIndex(addresses) ==
  IF \E i \in DOMAIN addresses : IsNullish(addresses[i])
    THEN CHOOSE i \in DOMAIN addresses :
           /\ IsNullish(addresses[i])
           /\ \A j \in 1..(i - 1) : ~IsNullish(addresses[j])
    ELSE 0

\* extractPhoneNumberFromOrder without the shipping_address fallback
extractPhoneNumberFromOrder_NoShipping(orderData) ==
  IF ~Truthy(orderData) THEN Null
  ELSE LET addresses == Get(orderData, "addresses")
           scan == Truthy(addresses) /\ addresses.t = "array" /\ Len(addresses.v) > 0
           hit == IF scan THEN FirstPhoneIndex(addresses.v) ELSE 0
           bad == IF scan THEN FirstNullishIndex(addresses.v) ELSE 0
       IN IF bad # 0 /\ (hit = 0 \/ bad < hit)
            THEN Throw(<<"Cannot read properties of null (reading 'telephone')">>)
          ELSE IF hit # 0 THEN Get(addresses.v[hit], "telephone")
          ELSE IF Truthy(OptGet(Get(orderData, "billing_address"), "telephone"))
            THEN Get(Get(orderData, "billing_address"), "telephone")
          ELSE Null

extractPhoneNumberFromOrder(orderData) ==
  IF ~Truthy(orderData) THEN Null
  ELSE LET addresses == Get(orderData, "addresses")
           scan == Truthy(addresses) /\ addresses.t = "array" /\ Len(addresses.v) > 0
           hit == IF scan THEN FirstPhoneIndex(addresses.v) ELSE 0
           bad == IF scan THEN FirstNullishIndex(addresses.v) ELSE 0
       IN IF bad # 0 /\ (hit = 0 \/ bad < hit)
            THEN Throw(<<"Cannot read properties of null (reading 'telephone')">>)
          ELSE IF hit # 0 THEN Get(addresses.v[hit], "telephone")
          ELSE IF Truthy(OptGet(Get(orderData, "billing_address"), "telephone"))
            THEN Get(Get(orderData, "billing_address"), "telephone")
          ELSE IF Truthy(OptGet(Get(orderData, "shipping_address"), "telephone"))
            THEN Get(Get(orderData, "shipping_address"), "telephone")
          ELSE Null

\* formatPhoneForWhatsApp returning the E.164 number without the tag
formatPhoneForWhatsApp_NoTag(phoneNumber) ==
  LET formatted == formatPhoneNumber(phoneNumber)
  IN IF IsThrow(formatted) THEN formatted
     ELSE IF ~Truthy(formatted) THEN Null
     ELSE formatted

formatPhoneForWhatsApp(phoneNumber) ==
  LET formatted == formatPhoneNumber(phoneNumber)
  IN IF IsThrow(formatted) THEN formatted
     ELSE IF ~Truthy(formatted) THEN Null
     ELSE IF StartsWith(formatted.v, WHATSAPP_PREFIX) THEN formatted
     ELSE Str(WHATSAPP_PREFIX \o formatted.v)

(***************************************************************************)
(* messageGenerator.js                                                     *)
(***************************************************************************)
generateOrderPlacedMessage(customerName, orderNumber, orderTotal, orderCurrency) ==
  Str(<<"Hi ">> \o ToStr(customerName) \o <<", your order #">> \o ToStr(orderNumber)
      \o <<" for ">> \o ToStr(orderTotal) \o <<" ">> \o ToStr(orderCurrency)
      \o <<" has been confirmed. Thank you for your purchase!">>)

generateOrderStatusChangeMessage(customerName, orderNumber, orderStatus) ==
  Str(<<"Hi ">> \o ToStr(customerName) \o <<", your order #">> \o ToStr(orderNumber)
      \o <<" status has been updated to ">> \o ToStr(orderStatus) \o <<".">>)

generateShipmentMessage(customerName, orderNumber, trackingNumber) ==
  IF Truthy(trackingNumber)
    THEN Str(<<"Hi ">> \o ToStr(customerName) \o <<", your order #">> \o ToStr(orderNumber)
             \o <<" has been shipped!">>
             \o <<" Track your package using tracking number ">>
             \o ToStr(trackingNumber) \o <<".">>)
    ELSE Str(<<"Hi ">> \o ToStr(customerName) \o <<", your order #">> \o ToStr(orderNumber)
             \o <<" has been shipped!">>)

generateCancellationMessage(customerName, orderNumber) ==
  Str(<<"Hi ">> \o ToStr(customerName) \o <<", your order #">> \o ToStr(orderNumber)
      \o <<" has been cancelled.">> \o <<" If you have any questions, please contact us.">>)

\* the last track instead of the first
FirstTrack_Last(shipmentData) ==
  LET tracks == OptGet(shipmentData, "tracks")
  IN IF IsNullish(tracks) THEN Undef
     ELSE IF tracks.t = "array" /\ Len(tracks.v) > 0 THEN tracks.v[Len(tracks.v)]
     ELSE Undef

\* shipmentData?.tracks?.[0]
FirstTrack(shipmentData) ==
  LET tracks == OptGet(shipmentData, "tracks")
  IN IF IsNullish(tracks) THEN Undef ELSE ArrAt(tracks, 0)

\* shipmentData?.tracks?.[0]?.track_number || shipmentData?.tracks?.[0]?.number
TrackingNumberOf(shipmentData) ==
  Or(OptGet(FirstTrack(shipmentData), "track_number"),
     OptGet(FirstTrack(shipmentData), "number"))

\* generateMessageByEventType dispatching on substrings of the event type
generateMessageByEventType_Substring(eventType, orderData, customerName, orderNumber, shipmentData) ==
  LET isOrderCancelled == Includes(eventType.v, <<"sales_order_", "cancel_after">>)
      isOrderPlaced == Includes(eventType.v, <<"sales_order_", "place_after">>)
      isShipmentCreated == Includes(eventType.v, <<"sales_order_", "shipment_", "save_after">>)
      isOrderSaved == Includes(eventType.v, <<"sales_order_", "save_after">>)
      orderTotal == Get(orderData, "grand_total")
      orderCurrency == Get(orderData, "order_currency_code")
      orderStatus == Or(Get(orderData, "status"), Get(orderData, "state"))
  IN IF isOrderCancelled
       THEN generateCancellationMessage(customerName, orderNumber)
     ELSE IF isOrderPlaced
       THEN generateOrderPlacedMessage(customerName, orderNumber, orderTotal, orderCurrency)
     ELSE IF isShipmentCreated
       THEN generateShipmentMessage(customerName, orderNumber, TrackingNumberOf(shipmentData))
     ELSE IF isOrderSaved /\ Truthy(orderStatus)
       THEN generateOrderStatusChangeMessage(customerName, orderNumber, orderStatus)
     ELSE generateOrderPlacedMessage(customerName, orderNumber, orderTotal, orderCurrency)

generateMessageByEventType(eventType, orderData, customerName, orderNumber, shipmentData) ==
  LET isOrderCancelled == eventType = Str(CANCEL_AFTER)
      isOrderPlaced == eventType = Str(PLACE_AFTER)
      isShipmentCreated == eventType = Str(SHIPMENT_SAVE_AFTER)
      isOrderSaved == eventType = Str(SAVE_AFTER)
      orderTotal == Get(orderData, "grand_total")
      orderCurrency == Get(orderData, "order_currency_code")
      orderStatus == Or(Get(orderData, "status"), Get(orderData, "state"))
  IN IF isOrderCancelled
       THEN generateCancellationMessage(customerName, orderNumber)
     ELSE IF isOrderPlaced
       THEN generateOrderPlacedMessage(customerName, orderNumber, orderTotal, orderCurrency)
     ELSE IF isShipmentCreated
       THEN generateShipmentMessage(customerName, orderNumber, TrackingNumberOf(shipmentData))
     ELSE IF isOrderSaved /\ Truthy(orderStatus)
       THEN generateOrderStatusChangeMessage(customerName, orderNumber, orderStatus)
     ELSE generateOrderPlacedMessage(customerName, orderNumber, orderTotal, orderCurrency)

(***************************************************************************)
(* twilioService.js: sendWhatsAppMessage up to the awaited create call     *)
(***************************************************************************)
CONFIG_MISSING ==
  <<"Twilio configuration missing", " - WhatsApp notifications will not be sent">>

\* a failure result that carries no error text
FailureResult_NoError(errorMessage) ==
  Obj([success |-> Bool(FALSE)])

FailureResult(errorMessage) ==
  Obj([success |-> Bool(FALSE), error |-> Str(errorMessage)])

\* the catch block reporting the fallback text whatever the Error says
sendCatch_NoMessage(m) ==
  LET errorMessage == Str(<<"Unknown Twilio error">>)
  IN [kind |-> "result",
      result |-> FailureResult(errorMessage.v),
      clients |-> 1,
      log |-> <<LogEntry("error", <<"Failed to send WhatsApp message: ">> \o errorMessage.v)>>]

\* the catch block of sendWhatsAppMessage, for a caught Error with message m
\* (m undefined when the Error carries none)
sendCatch(m) ==
  LET errorMessage == Or(m, Str(<<"Unknown Twilio error">>))
  IN [kind |-> "result",
      result |-> FailureResult(errorMessage.v),
      clients |-> 1,
      log |-> <<LogEntry("error", <<"Failed to send WhatsApp message: ">> \o errorMessage.v)>>]

\* sendWhatsAppMessage with the fromNumber test left out of the guard
sendWhatsAppMessage_NoFromCheck(config, toPhoneNumber, message) ==
  IF ~Truthy(config.accountSid) \/ ~Truthy(config.authToken)
    THEN [kind |-> "result",
          result |-> FailureResult(CONFIG_MISSING),
          clients |-> 0,
          log |-> <<LogEntry("warn", CONFIG_MISSING)>>]
    ELSE LET whatsappTo == formatPhoneForWhatsApp(toPhoneNumber)
         IN IF IsThrow(whatsappTo) THEN sendCatch(Str(whatsappTo.v))
            ELSE IF ~Truthy(whatsappTo) THEN sendCatch(Str(<<"Invalid phone number format">>))
            ELSE [kind |-> "call",
                  args |-> Obj([from |-> config.fromNumber, to |-> whatsappTo, body |-> message]),
                  clients |-> 1,
                  log |-> <<LogEntry("info", <<"Sending WhatsApp to ">> \o whatsappTo.v)>>]

\* yields kind "result" (returned without calling the provider) or kind
\* "call" (messages.create invoked with args, outcome awaited)
sendWhatsAppMessage(config, toPhoneNumber, message) ==
  IF ~Truthy(config.accountSid) \/ ~Truthy(config.authToken) \/ ~Truthy(config.fromNumber)
    THEN [kind |-> "result",
          result |-> FailureResult(CONFIG_MISSING),
          clients |-> 0,
          log |-> <<LogEntry("warn", CONFIG_MISSING)>>]
    ELSE LET whatsappTo == formatPhoneForWhatsApp(toPhoneNumber)
         IN IF IsThrow(whatsappTo) THEN sendCatch(Str(whatsappTo.v))
            ELSE IF ~Truthy(whatsappTo) THEN sendCatch(Str(<<"Invalid phone number format">>))
            ELSE [kind |-> "call",
                  args |-> Obj([from |-> config.fromNumber, to |-> whatsappTo, body |-> message]),
                  clients |-> 1,
                  log |-> <<LogEntry("info", <<"Sending WhatsApp to ">> \o whatsappTo.v)>>]

(***************************************************************************)
(* State                                                                   *)
(***************************************************************************)
VARIABLES
  params,         \* the argument of main
  pc,             \* position of main
  response,       \* value main returned (undefined until it returns)
  log,            \* logger calls so far, in order
  calls,          \* arguments of every messages.create call so far
  clients,        \* number of provider clients constructed
  eventType, orderData, shipmentData, orderNumber, customerPhone,
  message, twilioResult,   \* locals of main
  outcome,        \* what the awaited messages.create call did
  fn, args, result,        \* a pure function, its arguments and its value
  run, earlier    \* which of two invocations is running; what the first one did

mainVars == <<params, pc, response, log, calls, clients, eventType, orderData,
              shipmentData, orderNumber, customerPhone, message, twilioResult,
              outcome>>
fnVars == <<fn, args, result>>
pairVars == <<run, earlier>>
vars == <<mainVars, fnVars, pairVars>>

locals == <<eventType, orderData, shipmentData, orderNumber, customerPhone,
            message, twilioResult>>

(***************************************************************************)
(* Inputs                                                                  *)
(***************************************************************************)
MaxAddresses == 2
MaxTracks == 2

\* all sequences over S of length at most n
RECURSIVE SeqsUpTo(_, _)
SeqsUpTo(S, n) ==
  IF n = 0 THEN {<<>>}
  ELSE LET shorter == SeqsUpTo(S, n - 1)
       IN shorter \cup {Append(q, x) : q \in {r \in shorter : Len(r) = n - 1}, x \in S}

\* a record value with the fields of f whose value is not undefined
Rec(f) == Obj([k \in {j \in DOMAIN f : f[j] # Undef} |-> f[k]])

PhoneA == Str(<<"1", "2", "3", "4", "5", "6", "7", "8", "9", "0">>)
PhoneB == Str(<<"+", "1", "5", "5", "5">>)
PhoneC == Str(<<"0", "0", "4", "4", "2", "0">>)
PhoneD == Str(<<"(", "5", "5", "5", ")", " ", "9", "8", "-", "7">>)

AddressEntries ==
  {EmptyObj, Rec([telephone |-> PhoneA]), Rec([telephone |-> PhoneB]),
   Rec([telephone |-> EmptyStr]), Null}

AddressesValues == {Undef} \cup {Arr(q) : q \in SeqsUpTo(AddressEntries, MaxAddresses)}
BillingValues == {Undef, EmptyObj, Rec([telephone |-> PhoneC])}
ShippingValues == {Undef, Rec([telephone |-> PhoneD])}

OrderNo == Str(<<"000000008">>)
EntityNo == Str(<<"42">>)

BaseFields ==
  [increment_id |-> OrderNo, entity_id |-> Undef, customer_email |-> Str(<<"test@example.com">>),
   customer_firstname |-> Str(<<"Test">>), customer_lastname |-> Str(<<"Customer">>),
   grand_total |-> Num(100), order_currency_code |-> Str(<<"USD">>),
   status |-> Undef, state |-> Undef,
   addresses |-> Arr(<<Rec([telephone |-> PhoneA])>>),
   billing_address |-> Undef, shipping_address |-> Undef]

\* orders that differ in where the telephone is
PhoneOrders ==
  {Rec([BaseFields EXCEPT !.addresses = a, !.billing_address = b, !.shipping_address = s]) :
     a \in AddressesValues, b \in BillingValues, s \in ShippingValues}

\* orders that differ in the fields the message is rendered from
FieldOrders ==
  {Rec([BaseFields EXCEPT !.increment_id = i[1], !.entity_id = i[2],
                          !.status = st[1], !.state = st[2],
                          !.grand_total = g[1], !.order_currency_code = g[2],
                          !.customer_firstname = n[1], !.customer_lastname = n[2]]) :
     i \in {<<OrderNo, Undef>>, <<Undef, EntityNo>>, <<OrderNo, EntityNo>>, <<Undef, Undef>>},
     st \in {<<Undef, Undef>>, <<Str(<<"processing">>), Undef>>, <<Undef, Str(<<"new">>)>>,
             <<EmptyStr, Str(<<"new">>)>>, <<Str(<<"processing">>), Str(<<"new">>)>>,
             <<EmptyStr, EmptyStr>>},
     g \in {<<Num(100), Str(<<"USD">>)>>, <<Undef, Undef>>},
     n \in {<<Str(<<"Test">>), Str(<<"Customer">>)>>, <<Undef, Undef>>}}

BaseOrder == Rec(BaseFields)
BillingOrder ==
  Rec([BaseFields EXCEPT !.addresses = Undef, !.billing_address = Rec([telephone |-> PhoneC])])
NoPhoneOrder == Rec([BaseFields EXCEPT !.addresses = Arr(<<EmptyObj>>)])

TrackEntries ==
  {EmptyObj, Rec([track_number |-> Str(<<"TRACK123456">>)]),
   Rec([number |-> Str(<<"NUM789">>)]),
   Rec([track_number |-> Str(<<"TRACK123456">>), number |-> Str(<<"NUM789">>)]),
   Rec([track_number |-> EmptyStr, number |-> Str(<<"NUM789">>)]), Null}

TracksValues == {Undef} \cup {Arr(q) : q \in SeqsUpTo(TrackEntries, MaxTracks)}

SomeOrders == {Undef, EmptyObj, BaseOrder, BillingOrder, NoPhoneOrder}

ShipmentValues ==
  {Undef, Null, EmptyObj}
    \cup {Rec([order |-> o, tracks |-> t]) : o \in {Undef, BaseOrder}, t \in TracksValues}
    \cup {Rec([order |-> o, tracks |-> Arr(<<Rec([track_number |-> Str(<<"TRACK123456">>)])>>)]) :
            o \in SomeOrders}

\* data.value: absent, null, empty, an order itself, or a wrapper of order / shipment
ValueValues ==
  {Undef, Null, EmptyStr, EmptyObj, BaseOrder, BillingOrder, NoPhoneOrder}
    \cup {Rec([order |-> o, shipment |-> sh]) : o \in SomeOrders, sh \in ShipmentValues}
    \cup {Obj([k \in DOMAIN BaseOrder.v \cup {"shipment"} |->
                 IF k = "shipment" THEN sh ELSE BaseOrder.v[k]]) :
            sh \in {EmptyObj, Rec([tracks |-> Arr(<<Rec([number |-> Str(<<"NUM789">>)])>>)])}}

DataValues == {Undef, EmptyObj} \cup {Rec([value |-> v]) : v \in ValueValues}

UnknownType == Str(COMMERCE_NS \o <<".observer.", "unknown_event">>)
WrappedShipmentType == Str(<<"x.">> \o SHIPMENT_SAVE_AFTER \o <<".v2">>)
ForeignType == Str(<<"com.example", ".event">>)
ForeignShipmentType == Str(<<"com.example.">> \o SHIPMENT_NEEDLE)

AllowedTypes == {Str(ALLOWED_EVENT_TYPES[i]) : i \in DOMAIN ALLOWED_EVENT_TYPES}
\* a `type` that is not a string
NumericType == Num(123)
TypeValues ==
  {Undef, EmptyStr, UnknownType, WrappedShipmentType, ForeignType, ForeignShipmentType,
   NumericType}
    \cup AllowedTypes
SourceValues ==
  {Undef, EmptyStr, Str(COMMERCE_NS), Str(<<"urn:", "other">>),
   Str(<<"urn:", "com.adobe.commerce", ".events">>), Str(<<"evil", ".example">>)}
ChallengeValues == {Undef, EmptyStr, Str(<<"abc123">>)}

Sid == Str(<<"test_sid">>)
Token == Str(<<"test_token">>)
FromNumber == Str(WHATSAPP_PREFIX \o <<"+", "1", "2", "3", "4">>)

NoCreds == [sid |-> Undef, token |-> Undef, from |-> Undef]
FullCreds == [sid |-> Sid, token |-> Token, from |-> FromNumber]
CredValues ==
  {[sid |-> a, token |-> b, from |-> c] :
     a \in {Undef, EmptyStr, Sid}, b \in {Undef, EmptyStr, Token},
     c \in {Undef, EmptyStr, FromNumber}}

MkParams(ch, ty, src, d, cr) ==
  Rec([challenge |-> ch, type |-> ty, source |-> src, data |-> d,
       TWILIO_ACCOUNT_SID |-> cr.sid, TWILIO_AUTH_TOKEN |-> cr.token,
       TWILIO_WHATSAPP_FROM |-> cr.from])

\* every envelope shape against a few payloads
EnvelopeInputs ==
  {MkParams(ch, ty, src, d, cr) :
     ch \in ChallengeValues, ty \in TypeValues, src \in SourceValues,
     d \in {Undef, EmptyObj, Rec([value |-> Rec([order |-> BaseOrder])]),
            Rec([value |-> Rec([shipment |-> Rec([order |-> BaseOrder])])])},
     cr \in {NoCreds, FullCreds}}

\* every payload shape under each allowed type
PayloadInputs ==
  {MkParams(Undef, ty, src, d, FullCreds) :
     ty \in AllowedTypes, src \in {Str(COMMERCE_NS)}, d \in DataValues}

\* every order under each allowed type, directly and nested in a shipment
OrderInputs ==
  {MkParams(Undef, ty, Str(COMMERCE_NS), Rec([value |-> Rec([order |-> o])]), FullCreds) :
     ty \in AllowedTypes, o \in PhoneOrders \cup FieldOrders}
    \cup
  {MkParams(Undef, Str(SHIPMENT_SAVE_AFTER), Str(COMMERCE_NS),
            Rec([value |-> Rec([shipment |-> Rec([order |-> o, tracks |-> t])])]), FullCreds) :
     o \in FieldOrders, t \in {Undef, Arr(<<Rec([track_number |-> Str(<<"TRACK123456">>)])>>)}}

\* every credential combination
CredInputs ==
  {MkParams(Undef, ty, Str(COMMERCE_NS), Rec([value |-> Rec([order |-> BaseOrder])]), cr) :
     ty \in AllowedTypes, cr \in CredValues}

Inputs == EnvelopeInputs \cup PayloadInputs \cup OrderInputs \cup CredInputs

(***************************************************************************)
(* index.js: main                                                          *)
(***************************************************************************)
IdleFn == fn = "none" /\ args = <<>> /\ result = Undef

\* messages.create not (yet) settled
NoOutcome == [kind |-> "none"]

\* a single invocation: nothing kept from an earlier one
NoFirstRun == [kind |-> "none"]
SingleRun == run = 1 /\ earlier = NoFirstRun

Init ==
  /\ params \in Inputs
  /\ pc = "start"
  /\ response = Undef
  /\ log = <<>>
  /\ calls = <<>>
  /\ clients = 0
  /\ eventType = Undef /\ orderData = Undef /\ shipmentData = Undef
  /\ orderNumber = Undef /\ customerPhone = Undef
  /\ message = Undef /\ twilioResult = Undef
  /\ outcome = NoOutcome
  /\ IdleFn
  /\ SingleRun

\* main returns r after logging entries
Return(r, entries) ==
  /\ response' = r
  /\ log' = log \o entries
  /\ pc' = "done"

\* the catch block of main
Caught(entries) ==
  Return(errorResponse(500, <<"Internal server error">>),
         entries \o <<LogEntry("error", <<"Unexpected error processing order notification">>)>>)

StartLog == <<LogEntry("info", <<"Processing order notification event">>)>>

HandleChallenge ==
  /\ pc = "start"
  /\ Truthy(Get(params, "challenge"))
  /\ Return(Obj([statusCode |-> Num(200),
                 body |-> Obj([challenge |-> Get(params, "challenge")])]),
            StartLog \o <<LogEntry("info", <<"Received webhook verification challenge">>)>>)
  /\ UNCHANGED <<params, calls, clients, locals, outcome, fnVars, pairVars>>

\* validation started whether or not a challenge was answered
ValidateEvent_IgnoresChallenge ==
  /\ pc = "start"
  /\ LET validationError == validateEvent(params)
     IN IF IsThrow(validationError.ret)
          THEN Caught(StartLog \o validationError.log) /\ UNCHANGED eventType
        ELSE IF Truthy(validationError.ret)
          THEN Return(validationError.ret, StartLog \o validationError.log)
               /\ UNCHANGED eventType
        ELSE /\ eventType' = Get(params, "type")
             /\ log' = log \o StartLog \o validationError.log
                  \o <<LogEntry("info", <<"Processing event type: ">> \o ToStr(Get(params, "type")))>>
             /\ pc' = "extract"
             /\ UNCHANGED response
  /\ UNCHANGED <<params, calls, clients, orderData, shipmentData, orderNumber,
                 customerPhone, message, twilioResult, outcome, fnVars, pairVars>>

ValidateEvent ==
  /\ pc = "start"
  /\ ~Truthy(Get(params, "challenge"))
  /\ LET validationError == validateEvent(params)
     IN IF IsThrow(validationError.ret)
          THEN Caught(StartLog \o validationError.log) /\ UNCHANGED eventType
        ELSE IF Truthy(validationError.ret)
          THEN Return(validationError.ret, StartLog \o validationError.log)
               /\ UNCHANGED eventType
        ELSE /\ eventType' = Get(params, "type")
             /\ log' = log \o StartLog \o validationError.log
                  \o <<LogEntry("info", <<"Processing event type: ">> \o ToStr(Get(params, "type")))>>
             /\ pc' = "extract"
             /\ UNCHANGED response
  /\ UNCHANGED <<params, calls, clients, orderData, shipmentData, orderNumber,
                 customerPhone, message, twilioResult, outcome, fnVars, pairVars>>

ExtractEventData ==
  /\ pc = "extract"
  /\ LET extracted == extractEventData(params, eventType)
     IN IF Truthy(extracted.error)
          THEN Return(extracted.error, extracted.log)
               /\ UNCHANGED <<orderData, shipmentData>>
          ELSE /\ orderData' = extracted.orderData
               /\ shipmentData' = extracted.shipmentData
               /\ log' = log \o extracted.log
               /\ pc' = "phone"
               /\ UNCHANGED response
  /\ UNCHANGED <<params, calls, clients, eventType, orderNumber, customerPhone,
                 message, twilioResult, outcome, fnVars, pairVars>>

LookupPhone ==
  /\ pc = "phone"
  /\ LET orderInfo == extractOrderInfo(orderData)
         phone == extractPhoneNumberFromOrder(orderData)
         infoLog == <<LogEntry("info", <<"Processing order ">> \o ToStr(orderInfo.orderNumber)
                        \o <<" for customer ">> \o ToStr(orderInfo.customerEmail))>>
     IN /\ orderNumber' = orderInfo.orderNumber
        /\ IF IsThrow(phone)
             THEN Caught(infoLog) /\ UNCHANGED customerPhone
           ELSE IF ~Truthy(phone)
             THEN /\ Return(errorResponse(400, <<"Customer phone number not found">>),
                            infoLog \o <<LogEntry("warn", <<"No phone number found for order ">>
                                           \o ToStr(orderInfo.orderNumber))>>)
                  /\ customerPhone' = phone
           ELSE /\ customerPhone' = phone
                /\ log' = log \o infoLog
                /\ pc' = "render"
                /\ UNCHANGED response
  /\ UNCHANGED <<params, calls, clients, eventType, orderData, shipmentData,
                 message, twilioResult, outcome, fnVars, pairVars>>

GenerateMessage ==
  /\ pc = "render"
  /\ message' = generateMessageByEventType(eventType, orderData,
                   extractOrderInfo(orderData).customerName, orderNumber, shipmentData)
  /\ pc' = "send"
  /\ UNCHANGED <<params, response, log, calls, clients, eventType, orderData,
                 shipmentData, orderNumber, customerPhone, twilioResult, outcome, fnVars, pairVars>>

SendWhatsApp ==
  /\ pc = "send"
  /\ LET twilioConfig == [accountSid |-> Get(params, "TWILIO_ACCOUNT_SID"),
                          authToken |-> Get(params, "TWILIO_AUTH_TOKEN"),
                          fromNumber |-> Get(params, "TWILIO_WHATSAPP_FROM")]
         sent == sendWhatsAppMessage(twilioConfig, customerPhone, message)
     IN /\ clients' = clients + sent.clients
        /\ log' = log \o sent.log
        /\ IF sent.kind = "result"
             THEN /\ twilioResult' = sent.result
                  /\ pc' = "respond"
                  /\ UNCHANGED calls
             ELSE /\ calls' = Append(calls, sent.args)
                  /\ pc' = "await"
                  /\ UNCHANGED twilioResult
  /\ UNCHANGED <<params, response, eventType, orderData, shipmentData,
                 orderNumber, customerPhone, message, outcome, fnVars, pairVars>>

MessageSid == Str(<<"SM123456">>)
ProviderStatuses == {Undef, Str(<<"queued">>)}
ProviderErrors == {Str(<<"Twilio API Error">>), EmptyStr, Undef}

\* messages.create resolves with {sid, status}
ProviderResolves ==
  /\ pc = "await"
  /\ \E status \in ProviderStatuses :
       /\ twilioResult' = Obj([success |-> Bool(TRUE), messageSid |-> MessageSid,
                               status |-> status])
       /\ outcome' = [kind |-> "resolved", sid |-> MessageSid, status |-> status]
  /\ log' = Append(log, LogEntry("info", <<"WhatsApp message sent successfully. SID: ">>
                                   \o ToStr(MessageSid)))
  /\ pc' = "respond"
  /\ UNCHANGED <<params, response, calls, clients, eventType, orderData, shipmentData,
                 orderNumber, customerPhone, message, fnVars, pairVars>>

\* a rejected messages.create call tried once more
ProviderRejects_Retry ==
  /\ pc = "await"
  /\ \E m \in ProviderErrors :
       LET caught == sendCatch(m)
       IN /\ twilioResult' = caught.result
          /\ log' = log \o caught.log
          /\ outcome' = [kind |-> "rejected", message |-> m]
  /\ pc' = IF Len(calls) < 2 THEN "send" ELSE "respond"
  /\ UNCHANGED <<params, response, calls, clients, eventType, orderData, shipmentData,
                 orderNumber, customerPhone, message, fnVars, pairVars>>

\* messages.create rejects with an Error whose message is m
ProviderRejects ==
  /\ pc = "await"
  /\ \E m \in ProviderErrors :
       LET caught == sendCatch(m)
       IN /\ twilioResult' = caught.result
          /\ log' = log \o caught.log
          /\ outcome' = [kind |-> "rejected", message |-> m]
  /\ pc' = "respond"
  /\ UNCHANGED <<params, response, calls, clients, eventType, orderData, shipmentData,
                 orderNumber, customerPhone, message, fnVars, pairVars>>

\* the body reporting the message SID in place of the success flag
responseBody_SidAsFlag(twilio) ==
  LET common == [success |-> Bool(TRUE),
                 message |-> Str(<<"Order notification processed">>),
                 orderNumber |-> orderNumber,
                 customerPhone |-> customerPhone,
                 whatsappSent |-> Get(twilio, "messageSid")]
  IN IF Truthy(Get(twilio, "error"))
       THEN Obj([k \in DOMAIN common \cup {"whatsappError"} |->
                   IF k = "whatsappError" THEN Get(twilio, "error") ELSE common[k]])
       ELSE Obj(common)

responseBody(twilio) ==
  LET common == [success |-> Bool(TRUE),
                 message |-> Str(<<"Order notification processed">>),
                 orderNumber |-> orderNumber,
                 customerPhone |-> customerPhone,
                 whatsappSent |-> Get(twilio, "success")]
  IN IF Truthy(Get(twilio, "error"))
       THEN Obj([k \in DOMAIN common \cup {"whatsappError"} |->
                   IF k = "whatsappError" THEN Get(twilio, "error") ELSE common[k]])
       ELSE Obj(common)

BuildResponse ==
  /\ pc = "respond"
  /\ Return(Obj([statusCode |-> Num(200), body |-> responseBody(twilioResult)]),
            <<LogEntry("info", <<"Request completed successfully. WhatsApp sent: ">>
                         \o ToStr(Get(twilioResult, "success")))>>)
  /\ UNCHANGED <<params, calls, clients, locals, outcome, fnVars, pairVars>>

Next ==
  \/ HandleChallenge
  \/ ValidateEvent
  \/ ExtractEventData
  \/ LookupPhone
  \/ GenerateMessage
  \/ SendWhatsApp
  \/ ProviderResolves
  \/ ProviderRejects
  \/ BuildResponse

Spec == Init /\ [][Next]_vars

(***************************************************************************)
(* Two invocations of main, the second on the same input with another      *)
(* non-empty `source`                                                      *)
(***************************************************************************)
\* what an invocation did, as seen from outside
Observed ==
  [params |-> params, response |-> response, calls |-> calls, clients |-> clients,
   log |-> log, outcome |-> outcome]

InvokeAgain ==
  /\ pc = "done" /\ run = 1
  /\ Truthy(Get(params, "source"))
  /\ \E src \in SourceValues :
       /\ Truthy(src) /\ src # Get(params, "source")
       /\ params' = Obj([params.v EXCEPT !.source = src])
  /\ earlier' = Observed
  /\ run' = 2
  /\ pc' = "start"
  /\ response' = Undef
  /\ log' = <<>> /\ calls' = <<>> /\ clients' = 0
  /\ eventType' = Undef /\ orderData' = Undef /\ shipmentData' = Undef
  /\ orderNumber' = Undef /\ customerPhone' = Undef
  /\ message' = Undef /\ twilioResult' = Undef
  /\ outcome' = NoOutcome
  /\ UNCHANGED fnVars

NextPair == Next \/ InvokeAgain

SpecPair == Init /\ [][NextPair]_vars

(***************************************************************************)
(* The pure functions applied to inputs drawn from bounded sets            *)
(***************************************************************************)
IdleMain ==
  /\ params = Undef /\ pc = "idle" /\ response = Undef
  /\ log = <<>> /\ calls = <<>> /\ clients = 0
  /\ eventType = Undef /\ orderData = Undef /\ shipmentData = Undef
  /\ orderNumber = Undef /\ customerPhone = Undef
  /\ message = Undef /\ twilioResult = Undef
  /\ outcome = NoOutcome
  /\ SingleRun

MaxPrefix == 3
MaxPad == 12

PhoneAlphabet == {"0", "1", "+", "-"}

RECURSIVE Pad(_)
Pad(k) == IF k = 0 THEN <<>> ELSE <<"5">> \o Pad(k - 1)

US10 == <<"1", "2", "3", "4", "5", "6", "7", "8", "9", "0">>

\* telephone strings: a short arbitrary prefix followed by a run of digits,
\* and the strings quoted by the documentation and the tests
PhoneInputs ==
  {Undef, Null}
    \cup {Str(pre \o Pad(k)) : pre \in SeqsUpTo(PhoneAlphabet, MaxPrefix), k \in 0..MaxPad}
    \cup {Str(US10), Str(<<"0", "0">> \o US10), Str(<<"+">> \o US10), PhoneD,
          Str(WHATSAPP_PREFIX \o <<"+", "1">> \o US10),
          Str(<<"a", "b", "c">>)}

InitPhone ==
  /\ IdleMain
  /\ fn = "none"
  /\ args \in {<<p>> : p \in PhoneInputs}
  /\ result = Undef

CallFormatPhoneNumber ==
  /\ fn = "none"
  /\ fn' = "formatPhoneNumber"
  /\ result' = formatPhoneNumber(args[1])
  /\ UNCHANGED <<args, mainVars, pairVars>>

CallFormatPhoneForWhatsApp ==
  /\ fn = "none"
  /\ fn' = "formatPhoneForWhatsApp"
  /\ result' = formatPhoneForWhatsApp(args[1])
  /\ UNCHANGED <<args, mainVars, pairVars>>

\* the value formatPhoneNumber returned is formatted again
ReapplyFormatPhoneNumber ==
  /\ fn = "formatPhoneNumber"
  /\ fn' = "formatPhoneNumber twice"
  /\ args' = <<args[1], result>>
  /\ result' = formatPhoneNumber(result)
  /\ UNCHANGED <<mainVars, pairVars>>

\* the value formatPhoneForWhatsApp returned is formatted again
ReapplyFormatPhoneForWhatsApp ==
  /\ fn = "formatPhoneForWhatsApp"
  /\ fn' = "formatPhoneForWhatsApp twice"
  /\ args' = <<args[1], result>>
  /\ result' = formatPhoneForWhatsApp(result)
  /\ UNCHANGED <<mainVars, pairVars>>

NextPhone ==
  \/ CallFormatPhoneNumber
  \/ CallFormatPhoneForWhatsApp
  \/ ReapplyFormatPhoneNumber
  \/ ReapplyFormatPhoneForWhatsApp

SpecPhone == InitPhone /\ [][NextPhone]_vars

StatusOrders ==
  {Rec([BaseFields EXCEPT !.increment_id = i[1], !.entity_id = i[2],
                          !.status = st[1], !.state = st[2],
                          !.grand_total = g[1], !.order_currency_code = g[2]]) :
     i \in {<<OrderNo, Undef>>, <<Undef, EntityNo>>},
     st \in {<<Undef, Undef>>, <<Str(<<"processing">>), Undef>>, <<Undef, Str(<<"new">>)>>,
             <<EmptyStr, Str(<<"new">>)>>, <<Str(<<"processing">>), Str(<<"new">>)>>,
             <<EmptyStr, EmptyStr>>},
     g \in {<<Num(100), Str(<<"USD">>)>>, <<Undef, Undef>>}}

MessageShipments ==
  {Undef, Null, EmptyObj} \cup {Rec([tracks |-> t]) : t \in TracksValues \ {Undef}}

\* arguments <<eventType, orderData, customerName, orderNumber, shipmentData>>
MessageInputs ==
  {<<ty, o, extractOrderInfo(o).customerName, extractOrderInfo(o).orderNumber, sh>> :
     ty \in TypeValues \ {Undef, NumericType}, o \in StatusOrders, sh \in MessageShipments}

InitMessage ==
  /\ IdleMain
  /\ fn = "none"
  /\ args \in MessageInputs
  /\ result = Undef

CallGenerateMessageByEventType ==
  /\ fn = "none"
  /\ fn' = "generateMessageByEventType"
  /\ result' = generateMessageByEventType(args[1], args[2], args[3], args[4], args[5])
  /\ UNCHANGED <<args, mainVars, pairVars>>

NextMessage == CallGenerateMessageByEventType

SpecMessage == InitMessage /\ [][NextMessage]_vars

(***************************************************************************)
(* Properties                                                              *)
(***************************************************************************)
Returned == pc = "done"

\* the fields of a failure response {error: {statusCode, body: {error}}}
ErrorStatus(r) == Get(Get(r, "error"), "statusCode")
ErrorMessage(r) == Get(Get(Get(r, "error"), "body"), "error")

IsError(r, status, msg) ==
  /\ r.t = "object" /\ DOMAIN r.v = {"error"}
  /\ ErrorStatus(r) = Num(status)
  /\ ErrorMessage(r) = Str(msg)

NoChallenge == ~Truthy(Get(params, "challenge"))
InType == Get(params, "type")
InSource == Get(params, "source")
InValue == OptGet(Get(params, "data"), "value")

FourTypes ==
  {<<"com.adobe.commerce", ".observer.", "sales_order_", "place_after">>,
   <<"com.adobe.commerce", ".observer.", "sales_order_", "save_after">>,
   <<"com.adobe.commerce", ".observer.", "sales_order_", "shipment_", "save_after">>,
   <<"com.adobe.commerce", ".observer.", "sales_order_", "cancel_after">>}

\* C1: without a truthy challenge, an absent or empty `type` or `source`
\* makes main return 400 "Invalid event structure"; no later step runs, so
\* no other error is produced and the provider is never called.
C1_InvalidStructure ==
  (NoChallenge /\ (~Truthy(InType) \/ ~Truthy(InSource))) =>
     /\ pc \in {"start", "done"}
     /\ calls = <<>> /\ clients = 0
     /\ Returned => IsError(response, 400, <<"Invalid event structure">>)
     /\ \A i \in DOMAIN log :
          log[i].level = "error" =>
            log[i].msg = <<"Invalid event structure - missing required CloudEvents fields (type, source)">>

C1_Witness ==
  /\ Returned /\ NoChallenge
  /\ InType = Str(PLACE_AFTER) /\ ~Truthy(InSource)
  /\ Truthy(Get(InValue, "order"))
  /\ Truthy(Get(params, "TWILIO_ACCOUNT_SID"))
  /\ IsError(response, 400, <<"Invalid event structure">>)

\* C2: a non-empty `type` that does not contain 'com.adobe.commerce' (with a
\* non-empty `source`) gives 400 "Invalid event source - not a Commerce
\* event", never "Unauthorized event type".
C2_NotCommerceEvent ==
  (NoChallenge /\ Truthy(InType) /\ Truthy(InSource) /\ InType.t = "string"
     /\ ~Includes(InType.v, <<"com.adobe.commerce">>)) =>
     /\ pc \in {"start", "done"}
     /\ Returned =>
          /\ IsError(response, 400, <<"Invalid event source - not a Commerce event">>)
          /\ ~StartsWith(ErrorMessage(response).v, <<"Unauthorized event type: ">>)

C2_Witness ==
  /\ Returned /\ NoChallenge
  /\ InType = ForeignShipmentType /\ Truthy(InSource)
  /\ IsError(response, 400, <<"Invalid event source - not a Commerce event">>)

\* C3: a `type` containing 'com.adobe.commerce' that is not exactly one of
\* the four allowed strings gives 400 "Unauthorized event type: <type>"
\* whatever `data` is; an event gets past validation only if its `type` is
\* exactly one of the four.
C3_UnauthorizedType ==
  /\ (NoChallenge /\ Truthy(InSource) /\ InType.t = "string"
        /\ Includes(InType.v, <<"com.adobe.commerce">>) /\ InType.v \notin FourTypes) =>
       /\ pc \in {"start", "done"}
       /\ Returned => IsError(response, 400, <<"Unauthorized event type: ">> \o InType.v)
  /\ (pc \notin {"start", "done"} \/ eventType # Undef) =>
       (InType.t = "string" /\ InType.v \in FourTypes)

C3_Witness ==
  /\ Returned /\ NoChallenge
  /\ InType = WrappedShipmentType
  /\ Truthy(Get(InValue, "order"))
  /\ IsError(response, 400, <<"Unauthorized event type: ">> \o WrappedShipmentType.v)

\* the event passed validateEvent
Validated ==
  NoChallenge /\ Truthy(InSource) /\ InType.t = "string" /\ InType.v \in FourTypes

IsShipmentType ==
  InType =
    Str(<<"com.adobe.commerce", ".observer.", "sales_order_", "shipment_", "save_after">>)

AbsentOrEmpty(x) == ~Truthy(x) \/ x = EmptyObj

\* C4 as stated: when `data.value` and `data.value.order` are absent or
\* empty (data: {}, data.value: {}, data.value.order: {}), a validated event
\* gets 400 "Missing order data", or 400 "Missing shipment data" when it is
\* a shipment event without `data.value.shipment`.
C4_Original ==
  (Returned /\ Validated
     /\ (AbsentOrEmpty(InValue) \/ InValue = Obj([order |-> EmptyObj]))) =>
     IF IsShipmentType /\ ~Truthy(OptGet(InValue, "shipment"))
       THEN IsError(response, 400, <<"Missing shipment data">>)
       ELSE IsError(response, 400, <<"Missing order data">>)

\* C4 amended: when `data.value` is absent or falsy (undefined, null, ''),
\* a validated event stops at extraction with 400 "Missing order data", or
\* 400 "Missing shipment data" for a shipment event; an empty object is not
\* absent: `data.value: {}`, or `data.value.order: {}` with no
\* `shipment.order` ahead of it, is taken as the order data and main returns
\* 400 "Customer phone number not found".
C4_MissingData ==
  /\ (Validated /\ ~Truthy(InValue)) =>
       /\ pc \in {"start", "extract", "done"}
       /\ Returned =>
            IF IsShipmentType
              THEN IsError(response, 400, <<"Missing shipment data">>)
              ELSE IsError(response, 400, <<"Missing order data">>)
  /\ (Validated
        /\ \/ InValue = EmptyObj
           \/ /\ Get(InValue, "order") = EmptyObj
              /\ ~(IsShipmentType /\ Truthy(Get(Get(InValue, "shipment"), "order")))) =>
       /\ pc \in {"start", "extract", "phone", "done"}
       /\ Returned => IsError(response, 400, <<"Customer phone number not found">>)

C4_Witness ==
  /\ Returned /\ Validated
  /\ IsShipmentType
  /\ Get(params, "data") = EmptyObj
  /\ IsError(response, 400, <<"Missing shipment data">>)

\* telephone of an address-like value
Tel(a) == OptGet(a, "telephone")

\* the entries of order.addresses, none when it is not an array
AddressList(o) ==
  IF Get(o, "addresses").t = "array" THEN Get(o, "addresses").v ELSE <<>>

AddressesAreMappings(o) ==
  \A i \in DOMAIN AddressList(o) : AddressList(o)[i].t = "object"

NoTelephone(o) ==
  /\ \A i \in DOMAIN AddressList(o) : ~Truthy(Tel(AddressList(o)[i]))
  /\ ~Truthy(Tel(Get(o, "billing_address")))
  /\ ~Truthy(Tel(Get(o, "shipping_address")))

\* C5: when the resolved order data (its address entries being mappings) has
\* no non-empty telephone in addresses, billing_address or shipping_address,
\* main returns 400 "Customer phone number not found" without rendering a
\* message or calling the provider; it returns that error in no other case.
C5_PhoneNotFound ==
  /\ (orderData # Undef /\ AddressesAreMappings(orderData) /\ NoTelephone(orderData)) =>
       /\ pc \in {"phone", "done"}
       /\ message = Undef /\ calls = <<>> /\ clients = 0
       /\ Returned => IsError(response, 400, <<"Customer phone number not found">>)
  /\ (Returned /\ IsError(response, 400, <<"Customer phone number not found">>)) =>
       (Validated /\ orderData # Undef /\ NoTelephone(orderData))

C5_Witness ==
  /\ Returned /\ Validated
  /\ Get(orderData, "addresses") = Arr(<<EmptyObj>>)
  /\ Truthy(Get(orderData, "increment_id"))
  /\ Truthy(Get(params, "TWILIO_ACCOUNT_SID"))
  /\ IsError(response, 400, <<"Customer phone number not found">>)

\* the telephone the priority rule selects from order o
FirstWithTel(o) ==
  CHOOSE i \in DOMAIN AddressList(o) :
    /\ Truthy(Tel(AddressList(o)[i]))
    /\ \A j \in 1..(i - 1) : ~Truthy(Tel(AddressList(o)[j]))

SomeAddressTel(o) == \E i \in DOMAIN AddressList(o) : Truthy(Tel(AddressList(o)[i]))

\* C6: the looked-up telephone is that of the first address entry with a
\* non-empty telephone; else billing_address.telephone; else
\* shipping_address.telephone; else null. An order without address
\* telephones but with a billing telephone ends in a 200 response carrying
\* the billing telephone.
C6_PhonePriority ==
  /\ customerPhone # Undef =>
       /\ SomeAddressTel(orderData) =>
            customerPhone = Tel(AddressList(orderData)[FirstWithTel(orderData)])
       /\ (~SomeAddressTel(orderData) /\ Truthy(Tel(Get(orderData, "billing_address")))) =>
            customerPhone = Tel(Get(orderData, "billing_address"))
       /\ (~SomeAddressTel(orderData) /\ ~Truthy(Tel(Get(orderData, "billing_address")))
             /\ Truthy(Tel(Get(orderData, "shipping_address")))) =>
            customerPhone = Tel(Get(orderData, "shipping_address"))
       /\ NoTelephone(orderData) => customerPhone = Null
  /\ (Returned /\ orderData # Undef /\ AddressesAreMappings(orderData)
        /\ ~SomeAddressTel(orderData)
        /\ Truthy(Tel(Get(orderData, "billing_address")))) =>
       /\ Get(response, "statusCode") = Num(200)
       /\ Get(Get(response, "body"), "customerPhone") = Tel(Get(orderData, "billing_address"))

C6_Witness ==
  /\ Returned
  /\ Get(orderData, "addresses") = Arr(<<EmptyObj, Obj([telephone |-> EmptyStr])>>)
  /\ Truthy(Tel(Get(orderData, "billing_address")))
  /\ Truthy(Tel(Get(orderData, "shipping_address")))
  /\ customerPhone = Tel(Get(orderData, "billing_address"))
  /\ Get(response, "statusCode") = Num(200)
  /\ Get(Get(response, "body"), "whatsappSent") = Bool(TRUE)

IsDigitChar(c) == c \in {"0", "1", "2", "3", "4", "5", "6", "7", "8", "9"}

\* digits kept, and a '+' kept only in front
CleanedAsDocumented(s) ==
  LET kept == SelectSeq(s, LAMBDA c : IsDigitChar(c) \/ c = "+")
  IN IF kept # <<>> /\ Head(kept) = "+"
       THEN <<"+">> \o SelectSeq(Tail(kept), IsDigitChar)
       ELSE SelectSeq(kept, IsDigitChar)

FormatAsDocumented(x) ==
  IF ~Truthy(x) THEN Null
  ELSE LET c == CleanedAsDocumented(x.v)
       IN IF c # <<>> /\ Head(c) = "+" THEN Str(c)
          ELSE IF Len(c) >= 2 /\ c[1] = "0" /\ c[2] = "0" THEN Str(<<"+">> \o SubSeq(c, 3, Len(c)))
          ELSE IF Len(c) = 10 THEN Str(<<"+", "1">> \o c)
          ELSE Str(<<"+">> \o c)

\* C7 as stated: formatPhoneNumber gives null for null/empty input; strips
\* every character except digits and a leading '+'; returns a cleaned value
\* starting with '+' unchanged; replaces a leading '00' by '+'; prepends
\* '+1' to exactly 10 digits; otherwise prepends '+'.
C7_FormatRules ==
  (fn = "formatPhoneNumber" /\ args[1].t \in {"string", "undefined", "null"}) =>
     result = FormatAsDocumented(args[1])

\* C8 as stated: for every input string formatPhoneForWhatsApp returns null
\* or "whatsapp:+<digits>": the tag once, a single '+', one or more digits.
C8_WhatsAppForm ==
  (fn = "formatPhoneForWhatsApp" /\ args[1].t = "string") =>
     \/ result = Null
     \/ /\ result.t = "string"
        /\ Len(result.v) > 10
        /\ SubSeq(result.v, 1, 10) = <<"w", "h", "a", "t", "s", "a", "p", "p", ":", "+">>
        /\ \A i \in 11..Len(result.v) : IsDigitChar(result.v[i])

\* the arguments of the generateMessageByEventType call
GenCalled == fn = "generateMessageByEventType"
ArgType == args[1]
ArgOrder == args[2]
ArgName == args[3]
ArgNumber == args[4]
ArgShipment == args[5]

T_Place == Str(<<"com.adobe.commerce", ".observer.", "sales_order_", "place_after">>)
T_Save == Str(<<"com.adobe.commerce", ".observer.", "sales_order_", "save_after">>)
T_Shipment ==
  Str(<<"com.adobe.commerce", ".observer.", "sales_order_", "shipment_", "save_after">>)
T_Cancel == Str(<<"com.adobe.commerce", ".observer.", "sales_order_", "cancel_after">>)

\* which template a rendered message is
IsCancelledMsg(m) ==
  m.v = <<"Hi ">> \o ToStr(ArgName) \o <<", your order #">> \o ToStr(ArgNumber)
          \o <<" has been cancelled.", " If you have any questions, please contact us.">>

IsConfirmedMsg(m) ==
  m.v = <<"Hi ">> \o ToStr(ArgName) \o <<", your order #">> \o ToStr(ArgNumber)
          \o <<" for ">> \o ToStr(Get(ArgOrder, "grand_total")) \o <<" ">>
          \o ToStr(Get(ArgOrder, "order_currency_code"))
          \o <<" has been confirmed. Thank you for your purchase!">>

IsStatusMsg(m, status) ==
  m.v = <<"Hi ">> \o ToStr(ArgName) \o <<", your order #">> \o ToStr(ArgNumber)
          \o <<" status has been updated to ">> \o status.v \o <<".">>

\* C9: the template is selected by exact equality of the event type:
\* cancel_after gives the cancelled message; place_after the confirmed
\* message with order number, grand_total and order_currency_code;
\* save_after with a non-empty status (else a non-empty state) the
\* status-update message with that value; every other case, save_after
\* with neither included, the confirmed template.
C9_TemplateDispatch ==
  GenCalled =>
    /\ ArgType = T_Cancel => IsCancelledMsg(result)
    /\ ArgType = T_Place =>
         /\ IsConfirmedMsg(result)
         /\ Includes(result.v, <<", your order #">> \o ToStr(ArgNumber))
         /\ Includes(result.v, ToStr(Get(ArgOrder, "grand_total")) \o <<" ">>
                                 \o ToStr(Get(ArgOrder, "order_currency_code")))
    /\ (ArgType = T_Save /\ Truthy(Get(ArgOrder, "status"))) =>
         IsStatusMsg(result, Get(ArgOrder, "status"))
    /\ (ArgType = T_Save /\ ~Truthy(Get(ArgOrder, "status")) /\ Truthy(Get(ArgOrder, "state"))) =>
         IsStatusMsg(result, Get(ArgOrder, "state"))
    /\ (ArgType = T_Save /\ ~Truthy(Get(ArgOrder, "status")) /\ ~Truthy(Get(ArgOrder, "state"))) =>
         IsConfirmedMsg(result)
    /\ ArgType \notin {T_Cancel, T_Place, T_Save, T_Shipment} => IsConfirmedMsg(result)

C9_Witness ==
  /\ GenCalled
  /\ ArgType = T_Save
  /\ Get(ArgOrder, "status") = EmptyStr
  /\ Get(ArgOrder, "state") = Str(<<"new">>)
  /\ Includes(result.v, <<" status has been updated to ", "new">>)

TRACK_CLAUSE == <<" Track your package using tracking number ">>

\* the first entry of shipment.tracks, undefined when there is none
FirstOfTracks(sh) ==
  LET tracks == OptGet(sh, "tracks")
  IN IF tracks.t = "array" /\ Len(tracks.v) > 0 THEN tracks.v[1] ELSE Undef

ShippedPlain ==
  <<"Hi ">> \o ToStr(ArgName) \o <<", your order #">> \o ToStr(ArgNumber)
    \o <<" has been shipped!">>

\* C10: a shipment message has the tracking clause exactly when the first
\* track has a non-empty track_number or, failing that, a non-empty number;
\* track_number is used when present, else number; with tracks absent or
\* empty, or a first track with neither (whatever later tracks hold), the
\* message is the shipped message without the clause.
C10_TrackingClause ==
  (GenCalled /\ ArgType = T_Shipment) =>
    LET first == FirstOfTracks(ArgShipment)
        tn == OptGet(first, "track_number")
        n == OptGet(first, "number")
    IN /\ Includes(result.v, TRACK_CLAUSE) <=> (Truthy(tn) \/ Truthy(n))
       /\ Truthy(tn) => result.v = ShippedPlain \o TRACK_CLAUSE \o tn.v \o <<".">>
       /\ (~Truthy(tn) /\ Truthy(n)) => result.v = ShippedPlain \o TRACK_CLAUSE \o n.v \o <<".">>
       /\ (~Truthy(tn) /\ ~Truthy(n)) => result.v = ShippedPlain

C10_Witness ==
  /\ GenCalled /\ ArgType = T_Shipment
  /\ OptGet(ArgShipment, "tracks") =
       Arr(<<EmptyObj, Obj([track_number |-> Str(<<"TRACK123456">>)])>>)
  /\ result.v = ShippedPlain

InSid == Get(params, "TWILIO_ACCOUNT_SID")
InToken == Get(params, "TWILIO_AUTH_TOKEN")
InFrom == Get(params, "TWILIO_WHATSAPP_FROM")

CredsMissing == ~Truthy(InSid) \/ ~Truthy(InToken) \/ ~Truthy(InFrom)

\* validation, extraction and the phone lookup all succeeded
PhoneFound == eventType # Undef /\ orderData # Undef /\ Truthy(customerPhone)

IsSuccess(r) ==
  /\ r.t = "object" /\ DOMAIN r.v = {"statusCode", "body"}
  /\ Get(r, "statusCode") = Num(200)

Body == Get(response, "body")

Logged(level, text) ==
  \E i \in DOMAIN log : log[i].level = level /\ Includes(log[i].msg, text)

\* C11: once validation, extraction and the phone lookup have succeeded, a
\* missing or empty TWILIO_ACCOUNT_SID, TWILIO_AUTH_TOKEN or
\* TWILIO_WHATSAPP_FROM means that no provider client is ever constructed,
\* messages.create is never invoked, and main returns statusCode 200 with
\* body.success true and body.whatsappSent false after logging a warning
\* that contains 'Twilio configuration missing'.
C11_MissingCredentials ==
  (PhoneFound /\ CredsMissing) =>
    /\ calls = <<>> /\ clients = 0 /\ pc # "await" /\ outcome = NoOutcome
    /\ Returned =>
         /\ IsSuccess(response)
         /\ Get(Body, "success") = Bool(TRUE)
         /\ Get(Body, "whatsappSent") = Bool(FALSE)
         /\ Logged("warn", <<"Twilio configuration missing">>)

C11_Witness ==
  /\ Returned /\ PhoneFound
  /\ Truthy(InSid) /\ Truthy(InToken) /\ InFrom = EmptyStr
  /\ IsSuccess(response)
  /\ Get(Body, "whatsappSent") = Bool(FALSE)
  /\ Logged("warn", <<"Twilio configuration missing">>)

Rejected == outcome.kind = "rejected"

\* C12 as stated: when messages.create throws, the result and the response
\* carry the thrown error's message, whatever it is.
C12_Original ==
  Rejected =>
    /\ twilioResult = Obj([success |-> Bool(FALSE), error |-> outcome.message])
    /\ Returned => Get(Body, "whatsappError") = outcome.message

\* what the catch block reports for the Error that was thrown
ReportedError == Or(outcome.message, Str(<<"Unknown Twilio error">>))

\* C12: when all three credentials are present and messages.create throws,
\* sendWhatsAppMessage does not propagate the exception: it logs at error
\* level and returns {success:false, error:e}, and main returns statusCode
\* 200 with body.whatsappSent false and body.whatsappError = e, where e is
\* the thrown error's message when that is non-empty and 'Unknown Twilio
\* error' when the message is empty or absent.
C12_ProviderFailure ==
  Rejected =>
    /\ ~CredsMissing
    /\ pc \in {"respond", "done"}
    /\ twilioResult = Obj([success |-> Bool(FALSE), error |-> ReportedError])
    /\ Logged("error", <<"Failed to send WhatsApp message: ">> \o ReportedError.v)
    /\ Len(calls) = 1
    /\ Returned =>
         /\ IsSuccess(response)
         /\ Get(Body, "success") = Bool(TRUE)
         /\ Get(Body, "whatsappSent") = Bool(FALSE)
         /\ Get(Body, "whatsappError") = ReportedError

C12_Witness ==
  /\ Returned
  /\ outcome = [kind |-> "rejected", message |-> Str(<<"Twilio API Error">>)]
  /\ IsSuccess(response)
  /\ Get(Body, "whatsappSent") = Bool(FALSE)
  /\ Get(Body, "whatsappError") = Str(<<"Twilio API Error">>)

InChallenge == Get(params, "challenge")

ChallengeEcho == Obj([statusCode |-> Num(200), body |-> Obj([challenge |-> InChallenge])])

\* no step after the challenge test has run
Bypassed ==
  /\ pc \in {"start", "done"}
  /\ calls = <<>> /\ clients = 0 /\ outcome = NoOutcome
  /\ eventType = Undef /\ orderData = Undef /\ shipmentData = Undef
  /\ orderNumber = Undef /\ customerPhone = Undef
  /\ message = Undef /\ twilioResult = Undef
  /\ ~Logged("error", <<>>) /\ ~Logged("warn", <<>>)

\* C13 as stated: whenever the input carries a `challenge` field, main
\* returns {statusCode:200, body:{challenge}} and bypasses everything else.
C13_Original ==
  InChallenge # Undef => (Bypassed /\ (Returned => response = ChallengeEcho))

\* C13: whenever the input carries a non-empty (truthy) `challenge`, main
\* returns {statusCode:200, body:{challenge:<the same value>}} immediately,
\* whatever `type`, `source` and `data` are: validation, extraction, message
\* rendering and the provider call are all bypassed.
C13_ChallengeEcho ==
  Truthy(InChallenge) => (Bypassed /\ (Returned => response = ChallengeEcho))

C13_Witness ==
  /\ Returned
  /\ InChallenge = Str(<<"abc123">>)
  /\ InType = NumericType
  /\ InSource = Undef
  /\ response = ChallengeEcho
  /\ Bypassed

IsFailure(r) == r.t = "object" /\ DOMAIN r.v = {"error"}

\* C14: messages.create is invoked at most once per invocation of main (no
\* retry after a failure) and only after validation, extraction and the
\* phone lookup have succeeded with all three credentials present; the
\* steps run in the order validate, extract, phone lookup, render, send,
\* and the first failing validation, extraction or phone step ends the
\* invocation with its error, no later step having run.
C14_Sequence ==
  /\ Len(calls) <= 1
  /\ clients <= 1
  /\ calls # <<>> =>
       /\ Validated /\ PhoneFound /\ ~CredsMissing
       /\ message # Undef
       /\ Get(calls[1], "body") = message
  /\ clients > 0 => (PhoneFound /\ message # Undef /\ ~CredsMissing)
  /\ twilioResult # Undef => message # Undef
  /\ message # Undef => PhoneFound
  /\ customerPhone # Undef => orderData # Undef
  /\ orderData # Undef => eventType # Undef
  /\ eventType # Undef => Validated
  /\ (Returned /\ NoChallenge /\ ~PhoneFound) =>
       /\ IsFailure(response)
       /\ message = Undef /\ twilioResult = Undef
       /\ calls = <<>> /\ clients = 0 /\ outcome = NoOutcome
  /\ (Returned /\ NoChallenge /\ eventType = Undef) =>
       (orderData = Undef /\ customerPhone = Undef)
  /\ (Returned /\ IsFailure(response) /\ ErrorStatus(response) = Num(400)) =>
       \/ eventType = Undef
       \/ orderData = Undef
       \/ ~Truthy(customerPhone)

C14_Witness ==
  /\ Returned /\ Rejected
  /\ Len(calls) = 1 /\ clients = 1
  /\ Validated /\ PhoneFound
  /\ IsSuccess(response)

\* {statusCode: 200, body: {...}} and nothing else
SuccessShape(r) ==
  /\ IsSuccess(r)
  /\ Get(r, "body").t = "object"

\* {error: {statusCode, body: {error: <string>}}} and nothing else
FailureShape(r) ==
  /\ IsFailure(r)
  /\ Get(r, "error").t = "object"
  /\ DOMAIN Get(r, "error").v = {"statusCode", "body"}
  /\ ErrorStatus(r) \in {Num(400), Num(500)}
  /\ Get(Get(r, "error"), "body").t = "object"
  /\ DOMAIN Get(Get(r, "error"), "body").v = {"error"}
  /\ ErrorMessage(r).t = "string"

\* C15: every response of main is either a success {statusCode:200, body}
\* without an `error` wrapper or a failure {error:{statusCode, body:{error:
\* <string>}}} without a top-level `statusCode`, never both; the status code
\* is one of 200, 400, 500; a non-challenge success body has success true,
\* message "Order notification processed", the properties orderNumber and
\* customerPhone, and a boolean whatsappSent.
C15_ResponseShape ==
  Returned =>
    /\ SuccessShape(response) \/ FailureShape(response)
    /\ ~(SuccessShape(response) /\ FailureShape(response))
    /\ (SuccessShape(response) /\ NoChallenge) =>
         /\ {"success", "message", "orderNumber", "customerPhone", "whatsappSent"}
              \subseteq DOMAIN Body.v
         /\ DOMAIN Body.v \subseteq
              {"success", "message", "orderNumber", "customerPhone", "whatsappSent",
               "whatsappError"}
         /\ Get(Body, "success") = Bool(TRUE)
         /\ Get(Body, "message") = Str(<<"Order notification processed">>)
         /\ Get(Body, "orderNumber") = orderNumber
         /\ Get(Body, "customerPhone") = customerPhone /\ Truthy(customerPhone)
         /\ Get(Body, "whatsappSent").t = "boolean"

C15_Witness ==
  /\ Returned /\ NoChallenge
  /\ SuccessShape(response)
  /\ Get(Body, "whatsappSent") = Bool(FALSE)
  /\ "whatsappError" \in DOMAIN Body.v
  /\ Get(Body, "orderNumber") = OrderNo

\* C16 as stated: main never throws: a response exists exactly when main has
\* returned, a 500 is always {error:{statusCode:500, body:{error:"Internal
\* server error"}}}, and an event with a structural problem in its envelope
\* (`type` or `source` missing, `type` not one of the four allowed strings)
\* is answered with 400, never with 500.
C16_StructuralErrorsAre400 ==
  /\ Returned <=> response # Undef
  /\ (Returned /\ IsFailure(response) /\ ErrorStatus(response) = Num(500)) =>
       IsError(response, 500, <<"Internal server error">>)
  /\ (Returned /\ NoChallenge /\ ~Validated) =>
       (FailureShape(response) /\ ErrorStatus(response) = Num(400))

IsSourceWarning(e) ==
  e.level = "warn" /\ StartsWith(e.msg, <<"Unexpected event source: ">>)

NotSourceWarning(e) == ~IsSourceWarning(e)

\* the log with the warnings about the source taken out
OtherEntries(entries) == SelectSeq(entries, NotSourceWarning)

SourceWarnings(entries) == Len(SelectSeq(entries, IsSourceWarning))

HasNamespace(src) == src.t = "string" /\ Includes(src.v, <<"com.adobe.commerce">>)

Processed ==
  \/ eventType # Undef
  \/ orderData # Undef
  \/ calls # <<>>
  \/ Returned /\ NoChallenge /\ IsSuccess(response)

\* C18 as stated: every envelope accepted by validation and processed (order
\* data extracted, message sent or a 200 returned) has a `source` containing
\* 'com.adobe.commerce'.
C18_SourceVerified ==
  Processed => HasNamespace(InSource)

InShipment == OptGet(InValue, "shipment")
ShipmentOrder == OptGet(InShipment, "order")
ValueOrder == OptGet(InValue, "order")

\* the first of the tiers that is present (truthy), null when none is
FirstPresent(tiers) ==
  IF \E i \in DOMAIN tiers : Truthy(tiers[i])
    THEN tiers[CHOOSE i \in DOMAIN tiers :
                 Truthy(tiers[i]) /\ \A j \in 1..(i - 1) : ~Truthy(tiers[j])]
    ELSE Null

ExpectedOrderData ==
  IF IsShipmentType /\ Truthy(InShipment)
    THEN FirstPresent(<<ShipmentOrder, ValueOrder, InValue>>)
    ELSE FirstPresent(<<ValueOrder, InValue>>)

\* C19: order data is resolved by an ordered fallback chain: for a shipment
\* event whose data.value.shipment is present, the first present of
\* shipment.order, data.value.order, data.value; in every other case
\* (non-shipment events, shipment events without shipment data) the first
\* present of data.value.order, data.value; a later tier is used only when
\* every earlier one is absent, and extraction fails only when all are.
C19_FallbackChain ==
  /\ orderData # Undef => (orderData = ExpectedOrderData /\ Truthy(orderData))
  /\ (eventType # Undef /\ pc # "extract" /\ orderData = Undef) =>
       (Returned /\ ~Truthy(ExpectedOrderData) /\ IsFailure(response))

C19_Witness ==
  /\ Returned /\ IsShipmentType
  /\ Truthy(InShipment) /\ ~Truthy(ShipmentOrder)
  /\ Truthy(ValueOrder) /\ ValueOrder # InValue
  /\ orderData = ValueOrder
  /\ IsSuccess(response)

\* '+' followed by one or more digits
IsE164(x) ==
  /\ x.t = "string" /\ Len(x.v) > 1 /\ x.v[1] = "+"
  /\ \A i \in 2..Len(x.v) : IsDigitChar(x.v[i])

\* C20: formatting is idempotent: formatPhoneNumber applied to a non-null
\* value it returned gives that value again, an input already of the form
\* '+' followed by digits is returned unchanged, and formatPhoneForWhatsApp
\* applied to a value it returned gives that value again, with the
\* 'whatsapp:' tag never duplicated.
C20_Idempotent ==
  /\ (fn = "formatPhoneNumber twice" /\ args[2] # Null) => result = args[2]
  /\ (fn = "formatPhoneNumber" /\ IsE164(args[1])) => result = args[1]
  /\ fn = "formatPhoneForWhatsApp twice" =>
       /\ result = args[2]
       /\ result # Null =>
            /\ StartsWith(result.v, WHATSAPP_PREFIX)
            /\ ~Includes(Substring(result.v, 1), WHATSAPP_PREFIX)

C20_Witness ==
  /\ fn = "formatPhoneNumber twice"
  /\ args[1] = Str(US10)
  /\ args[2] = Str(<<"+", "1">> \o US10)
  /\ result = args[2]

Resolved == outcome.kind = "resolved"

HasWhatsAppError == "whatsappError" \in DOMAIN Body.v

\* C21: in every 200 response of main that is not a challenge echo,
\* whatsappError is present exactly when whatsappSent is false; when present
\* it is a non-empty string: the configuration-missing text when a
\* credential is missing, else what the catch block reports for the thrown
\* error (its message, or 'Unknown Twilio error' when it has none);
\* whatsappSent is true exactly when messages.create returned without
\* throwing.
C21_ErrorIffNotSent ==
  (Returned /\ NoChallenge /\ IsSuccess(response)) =>
    /\ HasWhatsAppError <=> Get(Body, "whatsappSent") = Bool(FALSE)
    /\ HasWhatsAppError =>
         /\ Get(Body, "whatsappError").t = "string"
         /\ Get(Body, "whatsappError").v # <<>>
         /\ IF CredsMissing
              THEN Get(Body, "whatsappError") = Str(CONFIG_MISSING)
              ELSE Rejected /\ Get(Body, "whatsappError") = ReportedError
    /\ Get(Body, "whatsappSent") = Bool(TRUE) <=> Resolved
    /\ Resolved => Len(calls) = 1

C21_Witness ==
  /\ Returned /\ NoChallenge /\ IsSuccess(response)
  /\ Rejected /\ outcome.message = EmptyStr
  /\ Get(Body, "whatsappSent") = Bool(FALSE)
  /\ Get(Body, "whatsappError") = Str(<<"Unknown Twilio error">>)

\* extractEventData has run
Extracted == eventType # Undef /\ pc # "extract"

\* C22: a shipment event never gets 'Missing order data': with
\* data.value.shipment present the resolved order data is present too (at
\* worst data.value itself), so the only extraction error of a shipment event
\* is 'Missing shipment data', returned exactly when data.value is absent; a
\* shipment event without `shipment` but with data.value passes extraction
\* with shipmentData = null.
C22_ShipmentExtraction ==
  (Validated /\ IsShipmentType /\ Extracted) =>
    /\ ~IsError(response, 400, <<"Missing order data">>)
    /\ Truthy(InShipment) =>
         (Truthy(InValue) /\ Truthy(orderData) /\ shipmentData = InShipment)
    /\ IsError(response, 400, <<"Missing shipment data">>) <=> ~Truthy(InValue)
    /\ ~Truthy(InValue) => (Returned /\ orderData = Undef)
    /\ (~Truthy(InShipment) /\ Truthy(InValue)) =>
         (shipmentData = Null /\ Truthy(orderData))

C22_Witness ==
  /\ Returned /\ Validated /\ IsShipmentType
  /\ ~Truthy(InShipment) /\ Truthy(InValue)
  /\ shipmentData = Null
  /\ IsSuccess(response)
  /\ Includes(message.v, <<" has been shipped!">>)

\* the rendered message is the shipment template
RenderedShipped == Includes(message.v, <<" has been shipped!">>)

\* C23: for every event type that passes validation, the extractor's test
\* (type includes 'sales_order_shipment_save_after') holds exactly when the
\* generator's exact-equality test selects the shipment template: shipment
\* data is extracted for exactly the events rendered with the shipment
\* template, and for every other validated event shipmentData stays null
\* whatever the payload holds.
C23_ClassifiersAgree ==
  /\ eventType # Undef =>
       (Includes(eventType.v, <<"sales_order_", "shipment_", "save_after">>)
          <=> eventType = T_Shipment)
  /\ (Extracted /\ orderData # Undef) =>
       shipmentData = (IF eventType = T_Shipment THEN Or(InShipment, Null) ELSE Null)
  /\ message # Undef =>
       /\ RenderedShipped <=> eventType = T_Shipment
       /\ shipmentData # Null => RenderedShipped
       /\ RenderedShipped =>
            message = generateShipmentMessage(extractOrderInfo(orderData).customerName,
                                              orderNumber, TrackingNumberOf(InShipment))

C23_Witness ==
  /\ Returned /\ IsSuccess(response)
  /\ eventType = T_Save
  /\ Truthy(InShipment) /\ Truthy(TrackingNumberOf(InShipment))
  /\ shipmentData = Null
  /\ message # Undef /\ ~RenderedShipped

\* what main passes to the generator besides the event type
MainName == extractOrderInfo(orderData).customerName
MainStatus == Or(Get(orderData, "status"), Get(orderData, "state"))

PlacedMessage ==
  generateOrderPlacedMessage(MainName, orderNumber, Get(orderData, "grand_total"),
                             Get(orderData, "order_currency_code"))

RenderedStatusUpdate == Includes(message.v, <<" status has been updated to ">>)

\* C24: within main the generator's fallback branch (the order-placed
\* template for an event that is not place_after) is reached only for a
\* sales_order_save_after event whose order has neither a non-empty status
\* nor a non-empty state; for every other validated event the template is
\* fixed by the event type, and a cancel, place or shipment event is never
\* rendered with the status-update template, whatever status the order has.
C24_FallbackOnlyForSave ==
  message # Undef =>
    /\ eventType \in {T_Place, T_Save, T_Shipment, T_Cancel}
    /\ (message = PlacedMessage /\ eventType # T_Place) =>
         (eventType = T_Save /\ ~Truthy(MainStatus))
    /\ eventType = T_Place => message = PlacedMessage
    /\ eventType = T_Cancel => message = generateCancellationMessage(MainName, orderNumber)
    /\ eventType = T_Shipment => RenderedShipped
    /\ eventType = T_Save =>
         message = (IF Truthy(MainStatus)
                      THEN generateOrderStatusChangeMessage(MainName, orderNumber, MainStatus)
                      ELSE PlacedMessage)
    /\ RenderedStatusUpdate => (eventType = T_Save /\ Truthy(MainStatus))

C24_Witness ==
  /\ Returned /\ IsSuccess(response)
  /\ eventType = T_Save
  /\ Get(orderData, "status") = EmptyStr /\ ~Truthy(Get(orderData, "state"))
  /\ message = PlacedMessage

\* the telephone as it stands in order o
RawTelephone(o) ==
  IF SomeAddressTel(o) THEN Tel(AddressList(o)[FirstWithTel(o)])
  ELSE IF Truthy(Tel(Get(o, "billing_address"))) THEN Tel(Get(o, "billing_address"))
  ELSE Tel(Get(o, "shipping_address"))

\* C25: whenever main invokes messages.create, its argument is exactly
\* {from: TWILIO_WHATSAPP_FROM as given, to: 'whatsapp:' followed by the
\* E.164 form of the telephone taken from the order, body: the message
\* rendered by generateMessageByEventType}; the customerPhone of the
\* response body is the telephone as it stands in the order, unformatted,
\* and its orderNumber is increment_id, else entity_id, the value that
\* appears in the message body.
C25_CallArguments ==
  /\ calls # <<>> =>
       /\ calls[1].t = "object" /\ DOMAIN calls[1].v = {"from", "to", "body"}
       /\ Get(calls[1], "from") = InFrom
       /\ Get(calls[1], "to") =
            Str(WHATSAPP_PREFIX \o formatPhoneNumber(RawTelephone(orderData)).v)
       /\ Get(calls[1], "body") = message
       /\ message = generateMessageByEventType(eventType, orderData, MainName,
                                               orderNumber, shipmentData)
       /\ customerPhone = RawTelephone(orderData)
  /\ (Returned /\ NoChallenge /\ IsSuccess(response)) =>
       /\ Get(Body, "customerPhone") = RawTelephone(orderData)
       /\ Get(Body, "orderNumber") =
            Or(Get(orderData, "increment_id"), Get(orderData, "entity_id"))
       /\ Includes(message.v, <<", your order #">> \o ToStr(Get(Body, "orderNumber")))

C25_Witness ==
  /\ Returned /\ Resolved
  /\ Len(calls) = 1
  /\ Get(calls[1], "from") = FromNumber
  /\ Get(calls[1], "to") = Str(WHATSAPP_PREFIX \o <<"+", "1">> \o PhoneA.v)
  /\ Get(Body, "customerPhone") = PhoneA
  /\ Get(orderData, "increment_id") = Undef
  /\ Get(Body, "orderNumber") = EntityNo
  /\ Includes(Get(calls[1], "body").v, <<", your order #">> \o EntityNo.v)

====
